---- MODULE Spec2Model ----
\* Model of custom_components/moderntides/plot_manager.py (TidePlotManager).
\*
\* Numbers.  Python floats and datetimes are modelled as exact rationals
\* [n |-> numerator, d |-> denominator > 0] in lowest terms; floating-point
\* rounding and the microsecond resolution of timedelta are not modelled.
\* Instants are counted in ticks from an arbitrary origin.
\* Exceptions.  An operation that can raise returns [exc, val]: exc = "none"
\* and the value, or the name of the exception that leaves it.
EXTENDS Integers, Sequences, FiniteSets, TLC

VARIABLES
    name,            \* self._name
    filename,        \* self._filename, as a sequence of path tokens
    files,           \* the file system: path -> content, for the paths written
    tide_data,       \* argument of the call
    current_time,    \* argument of the call
    predictions,     \* local of generate_tide_plot / argument of the helpers
    curve_points,    \* local: result of _generate_smooth_curve
    extremes,        \* local: result of _find_extremes
    current_height,  \* local: result of _interpolate_current_height
    svg_content,     \* local: result of _generate_svg_plot
    html_content,    \* local of _save_svg_as_png
    sink,            \* which open() of the call failed ("ok": none)
    result,          \* what the call returned, or the exception that left it
    pc               \* "call" before the operation is applied, "done" after

vars == <<name, filename, files, tide_data, current_time, predictions,
          curve_points, extremes, current_height, svg_content, html_content,
          sink, result, pc>>

-----------------------------------------------------------------------------
\* Bounds of the model.

PlotLen == 2       \* longest tide_points list given to generate_tide_plot
MaxLen == 3        \* longest prediction series given to a helper on its own
MaxTime == 2       \* prediction instants are 0..MaxTime ticks
MaxHeight == 1     \* prediction heights are 0..MaxHeight
MaxRawLen == 3     \* longest raw prediccion list
ExtLen == 4        \* longest series given to _find_extremes on its own
ExtHeight == 2     \* heights 0..ExtHeight in those series

-----------------------------------------------------------------------------
\* Exact rationals.

RECURSIVE Gcd(_, _)
Gcd(a, b) == IF b = 0 THEN a ELSE Gcd(b, a % b)

Abs(a) == IF a < 0 THEN -a ELSE a

Q(num, den) ==
    LET s == IF den < 0 THEN -1 ELSE 1
        g == Gcd(Abs(num), Abs(den))
    IN  [n |-> (s * num) \div g, d |-> (s * den) \div g]

QInt(k) == [n |-> k, d |-> 1]
QAdd(a, b) ==
    IF a.d = 1 /\ b.d = 1 THEN [n |-> a.n + b.n, d |-> 1]
    ELSE Q(a.n * b.d + b.n * a.d, a.d * b.d)
QSub(a, b) ==
    IF a.d = 1 /\ b.d = 1 THEN [n |-> a.n - b.n, d |-> 1]
    ELSE Q(a.n * b.d - b.n * a.d, a.d * b.d)
QMul(a, b) ==
    IF a.d = 1 /\ b.d = 1 THEN [n |-> a.n * b.n, d |-> 1]
    ELSE Q(a.n * b.n, a.d * b.d)
QDiv(a, b) == Q(a.n * b.d, a.d * b.n)
QLe(a, b) == a.n * b.d <= b.n * a.d
QLt(a, b) == a.n * b.d < b.n * a.d
QIsZero(a) == a.n = 0

\* min() and max() of a non-empty list of rationals.
RECURSIVE QMinFrom(_, _, _)
QMinFrom(s, i, best) ==
    IF i > Len(s) THEN best
    ELSE QMinFrom(s, i + 1, IF QLt(s[i], best) THEN s[i] ELSE best)
QMin(s) == QMinFrom(s, 2, s[1])

RECURSIVE QMaxFrom(_, _, _)
QMaxFrom(s, i, best) ==
    IF i > Len(s) THEN best
    ELSE QMaxFrom(s, i + 1, IF QLt(best, s[i]) THEN s[i] ELSE best)
QMax(s) == QMaxFrom(s, 2, s[1])

Ok(v) == [exc |-> "none", val |-> v]
Raise(e) == [exc |-> e, val |-> <<>>]

\* All sequences over S of length at most k.
SeqUpTo(S, k) == UNION {[1..m -> S] : m \in 0..k}

-----------------------------------------------------------------------------
\* Data.

\* A prediction: {'time': datetime, 'height': float}.
Prediction(t, h) == [time |-> QInt(t), height |-> QInt(h)]

\* A field of a raw entry: absent (or None / empty), a string that does not
\* parse, or a string that parses to the number v.
Missing == [tag |-> "missing", v |-> 0]
Bad == [tag |-> "bad", v |-> 0]
Val(k) == [tag |-> "val", v |-> k]

RawEntry(f, h, a) == [kind |-> "record", fecha |-> f, hora |-> h, altura |-> a]
NotRecord == [kind |-> "notrecord", fecha |-> Missing, hora |-> Missing,
              altura |-> Missing]

\* A payload.  kind "none" is None; kind "dict" is a mapping whose keys are
\* present or absent as the fields say.  daily and mareas are "absent", "dict"
\* or "notdict" (a value without .keys()).
NoPayload ==
    [kind |-> "none", has_tide_points |-> FALSE, tide_points |-> <<>>,
     daily |-> "absent", mareas |-> "absent", has_prediccion |-> FALSE,
     prediccion |-> <<>>]

EmptyPayload == [NoPayload EXCEPT !.kind = "dict"]

NormalizedPayload(points) ==
    [EmptyPayload EXCEPT !.has_tide_points = TRUE, !.tide_points = points]

RawPayload(entries) ==
    [EmptyPayload EXCEPT !.daily = "dict", !.mareas = "dict",
                         !.has_prediccion = TRUE, !.prediccion = entries]

-----------------------------------------------------------------------------
\* _extract_predictions

\* strptime(f"{fecha} {hora}", "%Y-%m-%d %H:%M:%S"): ValueError unless both
\* parts parse; the instant is the day's first tick plus the time of day.
strptime(fecha, hora) ==
    IF fecha.tag = "val" /\ hora.tag = "val"
    THEN Ok(QInt(fecha.v * 24 + hora.v))
    ELSE Raise("ValueError")

\* float(entry.get("altura", 0))
float_altura(altura) ==
    CASE altura.tag = "missing" -> Ok(QInt(0))
      [] altura.tag = "val" -> Ok(QInt(altura.v))
      [] OTHER -> Raise("ValueError")

\* The body of the loop over prediccion for one entry: the list to append
\* (one prediction or nothing), or the exception the inner try lets through.
extract_entry(entry) ==
    IF entry.kind # "record" THEN Raise("AttributeError")
    ELSE IF entry.fecha.tag = "missing" \/ entry.hora.tag = "missing"
    THEN Ok(<<>>)
    ELSE LET dt == strptime(entry.fecha, entry.hora)
             height == float_altura(entry.altura)
         IN  IF dt.exc # "none" \/ height.exc # "none"
             THEN Ok(<<>>)
             ELSE Ok(<<[time |-> dt.val, height |-> height.val]>>)

RECURSIVE extract_loop(_, _)
extract_loop(prediccion, acc) ==
    IF prediccion = <<>> THEN Ok(acc)
    ELSE LET r == extract_entry(Head(prediccion))
         IN  IF r.exc # "none" THEN Raise(r.exc)
             ELSE extract_loop(Tail(prediccion), acc \o r.val)

_extract_predictions(td) ==
    IF td.has_tide_points /\ td.tide_points # <<>>
    THEN Ok(td.tide_points)
    ELSE IF td.daily = "notdict" THEN Raise("AttributeError")
    ELSE IF td.daily = "dict" /\ td.mareas = "notdict"
    THEN Raise("AttributeError")
    ELSE IF td.daily = "dict" /\ td.mareas = "dict" /\ td.has_prediccion
    THEN extract_loop(td.prediccion, <<>>)
    ELSE Ok(<<>>)

-----------------------------------------------------------------------------
\* _generate_smooth_curve

\* Insert p after every element whose time is <= p.time (keeps equal times in
\* their input order, as sorted() does).
RECURSIVE insert_by_time(_, _)
insert_by_time(s, p) ==
    IF s = <<>> THEN <<p>>
    ELSE IF QLt(p.time, Head(s).time) THEN <<p>> \o s
    ELSE <<Head(s)>> \o insert_by_time(Tail(s), p)

\* sorted(predictions, key=lambda x: x['time'])
RECURSIVE sorted_by_time(_)
sorted_by_time(s) ==
    IF s = <<>> THEN <<>>
    ELSE insert_by_time(sorted_by_time(SubSeq(s, 1, Len(s) - 1)), s[Len(s)])

\* ratio = j / 6; cubic_ratio = 3 * ratio**2 - 2 * ratio**3
\* (tabulated for j = 1..5, the values the inner loop takes)
ratio_of == [j \in 1..5 |-> Q(j, 6)]
cubic_ratio ==
    [j \in 1..5 |->
        LET r == ratio_of[j]
        IN  QSub(QMul(QInt(3), QMul(r, r)),
                 QMul(QInt(2), QMul(r, QMul(r, r))))]

\* The j-th interpolated point between p1 and p2.
interp_point(p1, p2, j) ==
    LET time_diff == QSub(p2.time, p1.time)
        height_diff == QSub(p2.height, p1.height)
    IN  [time |-> QAdd(p1.time, QMul(time_diff, ratio_of[j])),
         height |-> QAdd(p1.height, QMul(height_diff, cubic_ratio[j]))]

\* One pass of the outer loop: p1 and the 5 points after it.
smooth_segment(p1, p2) == <<p1>> \o [j \in 1..5 |-> interp_point(p1, p2, j)]

RECURSIVE smooth_loop(_, _)
smooth_loop(sp, i) ==
    IF i > Len(sp) - 1 THEN <<>>
    ELSE smooth_segment(sp[i], sp[i + 1]) \o smooth_loop(sp, i + 1)

\* Mutant: the predictions are not sorted before the intervals are built.
smooth_curve_unsorted(preds) ==
    IF Len(preds) < 2 THEN preds
    ELSE smooth_loop(preds, 1) \o <<preds[Len(preds)]>>

_generate_smooth_curve(preds) ==
    IF Len(preds) < 2 THEN preds
    ELSE LET sorted_predictions == sorted_by_time(preds)
         IN  smooth_loop(sorted_predictions, 1)
                 \o <<sorted_predictions[Len(sorted_predictions)]>>

-----------------------------------------------------------------------------
\* _interpolate_current_height

None == [some |-> FALSE, val |-> QInt(0)]
Some(v) == [some |-> TRUE, val |-> v]

linear(p1, p2, now) ==
    LET total_seconds == QSub(p2.time, p1.time)
        elapsed_seconds == QSub(now, p1.time)
    IN  IF QIsZero(total_seconds) THEN p1.height
        ELSE QAdd(p1.height,
                  QMul(QSub(p2.height, p1.height),
                       QDiv(elapsed_seconds, total_seconds)))

RECURSIVE interpolate_loop(_, _, _)
interpolate_loop(preds, now, i) ==
    IF i > Len(preds) - 1 THEN None
    ELSE IF QLe(preds[i].time, now) /\ QLe(now, preds[i + 1].time)
    THEN Some(linear(preds[i], preds[i + 1], now))
    ELSE interpolate_loop(preds, now, i + 1)

\* Mutant: the upper end of a bracket is excluded (t1 <= now < t2).
RECURSIVE interpolate_loop_half_open(_, _, _)
interpolate_loop_half_open(preds, now, i) ==
    IF i > Len(preds) - 1 THEN None
    ELSE IF QLe(preds[i].time, now) /\ QLt(now, preds[i + 1].time)
    THEN Some(linear(preds[i], preds[i + 1], now))
    ELSE interpolate_loop_half_open(preds, now, i + 1)

interpolate_half_open(preds, now) ==
    IF Len(preds) < 2 THEN None ELSE interpolate_loop_half_open(preds, now, 1)

_interpolate_current_height(preds, now) ==
    IF Len(preds) < 2 THEN None ELSE interpolate_loop(preds, now, 1)

-----------------------------------------------------------------------------
\* _find_extremes

Extreme(p, type) == [time |-> p.time, height |-> p.height, type |-> type]

prev_height(preds, i) == IF i = 1 THEN preds[i].height ELSE preds[i - 1].height
next_height(preds, i) ==
    IF i = Len(preds) THEN preds[i].height ELSE preds[i + 1].height

is_peak(preds, i) ==
    /\ QLe(prev_height(preds, i), preds[i].height)
    /\ QLe(next_height(preds, i), preds[i].height)

\* Mutant: a trough must be strictly below its neighbours.
is_trough_strict(preds, i) ==
    /\ QLt(preds[i].height, prev_height(preds, i))
    /\ QLt(preds[i].height, next_height(preds, i))

is_trough(preds, i) ==
    /\ QLe(preds[i].height, prev_height(preds, i))
    /\ QLe(preds[i].height, next_height(preds, i))

\* One pass of the loop: if peak ... elif trough ...
extremes_at(preds, i) ==
    IF is_peak(preds, i) THEN <<Extreme(preds[i], "high")>>
    ELSE IF is_trough(preds, i) THEN <<Extreme(preds[i], "low")>>
    ELSE <<>>

RECURSIVE extremes_loop(_, _)
extremes_loop(preds, i) ==
    IF i > Len(preds) THEN <<>>
    ELSE extremes_at(preds, i) \o extremes_loop(preds, i + 1)

\* Mutant: the two tests are independent (if ... if ...).
extremes_at_both(preds, i) ==
    (IF is_peak(preds, i) THEN <<Extreme(preds[i], "high")>> ELSE <<>>)
        \o (IF is_trough(preds, i) THEN <<Extreme(preds[i], "low")>> ELSE <<>>)

RECURSIVE extremes_loop_both(_, _)
extremes_loop_both(preds, i) ==
    IF i > Len(preds) THEN <<>>
    ELSE extremes_at_both(preds, i) \o extremes_loop_both(preds, i + 1)

find_extremes_both(preds) ==
    IF Len(preds) < 3 THEN <<>> ELSE extremes_loop_both(preds, 1)

\* Mutant: only interior indices are scanned (range(1, len - 1)).
RECURSIVE extremes_loop_interior(_, _)
extremes_loop_interior(preds, i) ==
    IF i > Len(preds) - 1 THEN <<>>
    ELSE extremes_at(preds, i) \o extremes_loop_interior(preds, i + 1)

find_extremes_interior(preds) ==
    IF Len(preds) < 3 THEN <<>> ELSE extremes_loop_interior(preds, 2)

_find_extremes(preds) ==
    IF Len(preds) < 3 THEN <<>> ELSE extremes_loop(preds, 1)

-----------------------------------------------------------------------------
\* Documents.  A document is what a file holds: the plot, the error
\* placeholder, or the HTML wrapper.  Colours, grid lines and axis labels are
\* left out: they can neither fail nor change what the other parts hold.

NoMarker == [some |-> FALSE, x |-> QInt(0), y |-> QInt(0), label |-> <<>>]

Doc(kind, title, path, current, markers, embed) ==
    [kind |-> kind, title |-> title, path |-> path, current |-> current,
     markers |-> markers, embed |-> embed]

NoDoc == Doc("unset", <<>>, <<>>, NoMarker, <<>>, <<>>)
AbsentFile == Doc("absent", <<>>, <<>>, NoMarker, <<>>, <<>>)
StaleFile == Doc("stale", <<>>, <<>>, NoMarker, <<>>, <<>>)

\* _generate_error_svg
_generate_error_svg ==
    Doc("error", <<"Could not load tide data">>, <<>>, NoMarker, <<>>, <<>>)

\* f"{h:.2f}": the height in hundredths, rounded to the nearest.
fmt2(h) == (200 * h.n + h.d) \div (2 * h.d)

\* strftime("%H:%M") of an instant in hours.
strftime(t) ==
    LET whole == t.n \div t.d
        minutes == ((t.n - whole * t.d) * 60) \div t.d
    IN  <<whole % 24, minutes>>

\* "<height>m @ <HH:MM>"
label_of(h, t) == <<fmt2(h), "m @", strftime(t)>>

-----------------------------------------------------------------------------
\* _generate_svg_plot

width == 800
height == 400
margin == 60
plot_width == width - 2 * margin
plot_height == height - 2 * margin

times_of(points) == [i \in DOMAIN points |-> points[i].time]
heights_of(points) == [i \in DOMAIN points |-> points[i].height]

\* min_height and max_height after the padding of 10% of the range.
padded_min_height(lo, hi) == QSub(lo, QMul(QSub(hi, lo), Q(1, 10)))
padded_max_height(lo, hi) == QAdd(hi, QMul(QSub(hi, lo), Q(1, 10)))

\* time_to_x scaled by the whole width, the margins forgotten.
time_to_x_full_width(time_val, min_time, max_time) ==
    LET span == QSub(max_time, min_time)
    IN  IF QIsZero(span) THEN Raise("ZeroDivisionError")
        ELSE LET time_ratio == QDiv(QSub(time_val, min_time), span)
             IN  Ok(QAdd(QInt(margin), QMul(time_ratio, QInt(width))))

\* time_to_x and height_to_y, with the bounds they close over as parameters.
\* Both divide by the span: ZeroDivisionError when it is zero.
time_to_x(time_val, min_time, max_time) ==
    LET span == QSub(max_time, min_time)
    IN  IF QIsZero(span) THEN Raise("ZeroDivisionError")
        ELSE LET time_ratio == QDiv(QSub(time_val, min_time), span)
             IN  Ok(QAdd(QInt(margin), QMul(time_ratio, QInt(plot_width))))

height_to_y(height_val, min_height, max_height) ==
    LET span == QSub(max_height, min_height)
    IN  IF QIsZero(span) THEN Raise("ZeroDivisionError")
        ELSE LET height_ratio == QDiv(QSub(height_val, min_height), span)
             IN  Ok(QSub(QInt(height - margin),
                         QMul(height_ratio, QInt(plot_height))))

\* The plot document, once the spans are known not to be zero.
\* dom holds min_time, max_time and the padded min_height, max_height.
plot_document(points, exts, now, cur, nm, dom) ==
    LET X(t) == time_to_x(t, dom.min_time, dom.max_time).val
        Y(h) == height_to_y(h, dom.min_height, dom.max_height).val
        path == [i \in DOMAIN points |->
                    [x |-> X(points[i].time), y |-> Y(points[i].height)]]
        current ==
            IF cur.some
            THEN [some |-> TRUE, x |-> X(now), y |-> Y(cur.val),
                  label |-> label_of(cur.val, now)]
            ELSE NoMarker
        marker(e) ==
            LET ext_x == X(e.time)
                ext_y == Y(e.height)
            IN  [x |-> ext_x, y |-> ext_y, type |-> e.type,
                 label_y |-> IF e.type = "high" THEN QSub(ext_y, QInt(20))
                             ELSE QAdd(ext_y, QInt(25)),
                 label |-> label_of(e.height, e.time)]
        markers == [i \in DOMAIN exts |-> marker(exts[i])]
    IN  Doc("plot", <<"Tide Prediction - ", nm>>, path, current, markers, <<>>)

_generate_svg_plot(points, exts, now, cur, nm) ==
    IF points = <<>> THEN Ok(_generate_error_svg)
    ELSE LET min_time == QMin(times_of(points))
             max_time == QMax(times_of(points))
             lo == QMin(heights_of(points))
             hi == QMax(heights_of(points))
             min_height == padded_min_height(lo, hi)
             max_height == padded_max_height(lo, hi)
             x1 == time_to_x(points[1].time, min_time, max_time)
             y1 == height_to_y(points[1].height, min_height, max_height)
         IN  IF x1.exc # "none" THEN Raise(x1.exc)
             ELSE IF y1.exc # "none" THEN Raise(y1.exc)
             ELSE Ok(plot_document(points, exts, now, cur, nm,
                                   [min_time |-> min_time,
                                    max_time |-> max_time,
                                    min_height |-> min_height,
                                    max_height |-> max_height]))

-----------------------------------------------------------------------------
\* _save_svg_as_png

\* A path is a sequence of tokens; str.replace('.png', '.svg') rewrites every
\* ".png" token.
replace_png(path) ==
    [i \in DOMAIN path |-> IF path[i] = ".png" THEN ".svg" ELSE path[i]]

b64encode(doc) == [b64 |-> doc]

html_wrapper(doc) ==
    Doc("html", <<>>, <<>>, NoMarker, <<>>, <<b64encode(doc)>>)

write_file(fs, path, content) == [fs EXCEPT ![path] = content]

\* io says which open() fails: "ok" none, "fail_alt" the first (the .svg
\* path), "fail_main" the second (self._filename).  The result is the value
\* returned, the file system left behind, and the local html_content.
_save_svg_as_png(svg, fname, fs, io) ==
    IF io = "fail_alt"
    THEN [ret |-> FALSE, files |-> fs, html |-> NoDoc]
    ELSE LET fs1 == write_file(fs, replace_png(fname), svg)
             html == html_wrapper(svg)
         IN  IF io = "fail_main"
             THEN [ret |-> FALSE, files |-> fs1, html |-> html]
             ELSE [ret |-> TRUE, files |-> write_file(fs1, fname, svg),
                   html |-> html]

-----------------------------------------------------------------------------
\* generate_tide_plot

\* The locals of a call when it reaches its last statement.  stage says how
\* the part before the save ended: "False" (a return False), "save" (line 69
\* is reached with svg_content), or the name of the exception raised.
Locals(stage, preds, curve, exts, cur, svg) ==
    [stage |-> stage, predictions |-> preds, curve_points |-> curve,
     extremes |-> exts, current_height |-> cur, svg_content |-> svg]

\* What a call leaves behind: its outcome ("True", "False", or the name of the
\* exception that leaves it), its locals and the file system.
Frame(res, loc, html, fs) ==
    [result |-> res, predictions |-> loc.predictions,
     curve_points |-> loc.curve_points, extremes |-> loc.extremes,
     current_height |-> loc.current_height, svg_content |-> loc.svg_content,
     html_content |-> html, files |-> fs]

\* not tide_data: None, or a mapping without keys.
is_falsy(td) ==
    td.kind = "none" \/ (~td.has_tide_points /\ td.daily = "absent")

\* Mutant: the error document is saved when there are no predictions.
no_predictions_saves_error ==
    Locals("save", <<>>, <<>>, <<>>, None, _generate_error_svg)

\* if not predictions: log and return False.
no_predictions == Locals("False", <<>>, <<>>, <<>>, None, NoDoc)

\* Lines 36-66: the call up to the save.
until_save(td, now, nm) ==
    IF is_falsy(td) THEN Locals("False", <<>>, <<>>, <<>>, None, NoDoc)
    ELSE LET extracted == _extract_predictions(td) IN
    IF extracted.exc # "none"
    THEN Locals(extracted.exc, <<>>, <<>>, <<>>, None, NoDoc)
    ELSE IF extracted.val = <<>> THEN no_predictions
    ELSE LET preds == extracted.val
             curve == _generate_smooth_curve(preds)
             exts == _find_extremes(preds)
             cur == _interpolate_current_height(preds, now)
             svg == _generate_svg_plot(curve, exts, now, cur, nm)
         IN  IF svg.exc # "none"
             THEN Locals(svg.exc, preds, curve, exts, cur, NoDoc)
             ELSE Locals("save", preds, curve, exts, cur, svg.val)

\* Line 69: return self._save_svg_as_png(svg_content)
save_and_return(loc, fname, fs, io) ==
    IF loc.stage = "save"
    THEN LET saved == _save_svg_as_png(loc.svg_content, fname, fs, io)
         IN  Frame(IF saved.ret THEN "True" ELSE "False", loc, saved.html,
                   saved.files)
    ELSE Frame(loc.stage, loc, NoDoc, fs)

\* Mutant: only ValueError and TypeError are caught.
except_value_errors(frame) ==
    IF frame.result \in {"ValueError", "TypeError"}
    THEN [frame EXCEPT !.result = "False"]
    ELSE frame

\* Lines 71-73: except Exception: log and return False.
except_Exception(frame) ==
    IF frame.result \notin {"True", "False"}
    THEN [frame EXCEPT !.result = "False"]
    ELSE frame

-----------------------------------------------------------------------------
\* Inputs.

Times == 0..MaxTime
Heights == 0..MaxHeight
Points == {Prediction(t, h) : t \in Times, h \in Heights}
Series == SeqUpTo(Points, MaxLen)
PlotSeries == SeqUpTo(Points, PlotLen)
Instants == {QInt(t) : t \in -1..(MaxTime + 1)}

\* The end-to-end scenario: (08:00, 0.5), (14:00, 3.2), (20:00, 0.7), seen at
\* 11:00.
ScenarioPoints ==
    <<[time |-> QInt(8), height |-> Q(1, 2)],
      [time |-> QInt(14), height |-> Q(16, 5)],
      [time |-> QInt(20), height |-> Q(7, 10)]>>
ScenarioPayload == NormalizedPayload(ScenarioPoints)
ScenarioInstant == QInt(11)

\* Raw entries: every combination of a present or absent date, a time that
\* parses or not, and a height that is absent, unparsable or a number; and a
\* value that is not a record.
Fechas == {Missing, Val(0)}
Horas == {Bad, Val(0), Val(1)}
Alturas == {Missing, Bad, Val(1)}
RawEntries ==
    {RawEntry(f, h, a) : f \in Fechas, h \in Horas, a \in Alturas}
        \cup {NotRecord}

\* The raw entries the whole pipeline is run on.
PipelineEntries ==
    {RawEntry(Val(0), Val(0), Val(1)), RawEntry(Val(0), Val(1), Missing),
     RawEntry(Val(0), Bad, Val(1)), NotRecord}

\* Payloads without usable tide_points: the key absent or the list empty,
\* with each way the raw structure can be present, partial or malformed.
FallbackPayloads ==
    {[EmptyPayload EXCEPT !.has_tide_points = tp, !.daily = d, !.mareas = m,
                          !.has_prediccion = hp, !.prediccion = es] :
        tp \in BOOLEAN, d \in {"absent", "dict", "notdict"},
        m \in {"absent", "dict", "notdict"}, hp \in BOOLEAN,
        es \in SeqUpTo(PipelineEntries, MaxRawLen)}

\* A payload is well formed when the parts below an absent or malformed key
\* are absent too.
WellFormedPayload(td) ==
    /\ td.daily # "dict" => td.mareas = "absent"
    /\ td.mareas # "dict" => ~td.has_prediccion
    /\ ~td.has_prediccion => td.prediccion = <<>>

Payloads ==
    {NoPayload}
        \cup {NormalizedPayload(s) : s \in PlotSeries \ {<<>>}}
        \cup {td \in FallbackPayloads : WellFormedPayload(td)}

Filename == <<"www/tide", ".png">>
Paths == {Filename, replace_png(Filename)}
SinkOutcomes == {"ok", "fail_alt", "fail_main"}

-----------------------------------------------------------------------------
\* The specification of generate_tide_plot: one call on any payload, instant
\* and sink behaviour, after construction on a file system that holds nothing
\* at the two paths or the files an earlier run left there.

InitCommon ==
    /\ name = "Home"
    /\ curve_points = <<>>
    /\ extremes = <<>>
    /\ current_height = None
    /\ svg_content = NoDoc
    /\ html_content = NoDoc
    /\ sink = "none"
    /\ result = "none"
    /\ pc = "call"

Init ==
    /\ InitCommon
    /\ predictions = <<>>
    /\ filename = Filename
    /\ files \in {[p \in Paths |-> AbsentFile], [p \in Paths |-> StaleFile]}
    /\ \/ tide_data \in Payloads /\ current_time \in Instants
       \/ tide_data = ScenarioPayload /\ current_time = ScenarioInstant

GenerateTidePlot ==
    /\ pc = "call"
    /\ \E loc \in {until_save(tide_data, current_time, name)} :
       \E io \in SinkOutcomes :
        \E f \in {except_Exception(save_and_return(loc, filename, files, io))} :
            /\ sink' = io
            /\ result' = f.result
            /\ predictions' = f.predictions
            /\ curve_points' = f.curve_points
            /\ extremes' = f.extremes
            /\ current_height' = f.current_height
            /\ svg_content' = f.svg_content
            /\ html_content' = f.html_content
            /\ files' = f.files
    /\ pc' = "done"
    /\ UNCHANGED <<name, filename, tide_data, current_time>>

Next == GenerateTidePlot

Spec == Init /\ [][Next]_vars

-----------------------------------------------------------------------------
\* The helpers on their own: each specification draws the helper's arguments
\* and applies it once.

InitHelper ==
    /\ InitCommon
    /\ filename = Filename
    /\ files = [p \in Paths |-> AbsentFile]

\* _extract_predictions on a raw-shape payload.
RawPayloads == {RawPayload(es) : es \in SeqUpTo(RawEntries, MaxRawLen)}

InitExtract ==
    /\ InitHelper
    /\ tide_data \in RawPayloads
    /\ current_time = QInt(0)
    /\ predictions = <<>>

ExtractPredictions ==
    /\ pc = "call"
    /\ \E r \in {_extract_predictions(tide_data)} :
        /\ predictions' = r.val
        /\ result' = IF r.exc = "none" THEN "returned" ELSE r.exc
    /\ pc' = "done"
    /\ UNCHANGED <<name, filename, files, tide_data, current_time,
                   curve_points, extremes, current_height, svg_content,
                   html_content, sink>>

SpecExtract == InitExtract /\ [][ExtractPredictions]_vars

\* _generate_smooth_curve on a series in any order.
InitSmooth ==
    /\ InitHelper
    /\ tide_data = NoPayload
    /\ current_time = QInt(0)
    /\ predictions \in Series

GenerateSmoothCurve ==
    /\ pc = "call"
    /\ curve_points' = _generate_smooth_curve(predictions)
    /\ result' = "returned"
    /\ pc' = "done"
    /\ UNCHANGED <<name, filename, files, tide_data, current_time,
                   predictions, extremes, current_height, svg_content,
                   html_content, sink>>

SpecSmooth == InitSmooth /\ [][GenerateSmoothCurve]_vars

\* _find_extremes on a series whose i-th prediction is at instant i.
ExtremeSeries ==
    {[i \in DOMAIN hs |-> Prediction(i, hs[i])] :
        hs \in SeqUpTo(0..ExtHeight, ExtLen)}

InitExtremes ==
    /\ InitHelper
    /\ tide_data = NoPayload
    /\ current_time = QInt(0)
    /\ predictions \in ExtremeSeries

FindExtremes ==
    /\ pc = "call"
    /\ extremes' = _find_extremes(predictions)
    /\ result' = "returned"
    /\ pc' = "done"
    /\ UNCHANGED <<name, filename, files, tide_data, current_time,
                   predictions, curve_points, current_height, svg_content,
                   html_content, sink>>

SpecExtremes == InitExtremes /\ [][FindExtremes]_vars

\* _interpolate_current_height on a series in any order and any instant.
InitInterpolate ==
    /\ InitHelper
    /\ tide_data = NoPayload
    /\ current_time \in Instants
    /\ predictions \in Series

InterpolateCurrentHeight ==
    /\ pc = "call"
    /\ current_height' = _interpolate_current_height(predictions, current_time)
    /\ result' = "returned"
    /\ pc' = "done"
    /\ UNCHANGED <<name, filename, files, tide_data, current_time,
                   predictions, curve_points, extremes, svg_content,
                   html_content, sink>>

SpecInterpolate == InitInterpolate /\ [][InterpolateCurrentHeight]_vars


-----------------------------------------------------------------------------
\* Properties of generate_tide_plot (specification Spec).

\* C1: whatever the payload, the instant and the sink's behaviour, no
\* exception leaves generate_tide_plot: the call ends by returning True or
\* False.
C1_NeverRaises == pc = "done" => result \in {"True", "False"}

\* A call in which extraction raised and False was returned.
C1_Witness ==
    /\ pc = "done"
    /\ ~is_falsy(tide_data)
    /\ _extract_predictions(tide_data).exc # "none"
    /\ result = "False"

\* C2: a call with no payload, or with a payload from which extraction yields
\* zero predictions, returns False and leaves every file as it was.
NoData ==
    is_falsy(tide_data) \/ _extract_predictions(tide_data) = Ok(<<>>)

C2_NoDataNoWrite ==
    [][(pc = "call" /\ NoData) => (result' = "False" /\ files' = files)]_vars

\* A finished call on an empty tide_points list without raw fallback, with
\* the files of an earlier run in place.
C2_Witness ==
    /\ pc = "done"
    /\ files[filename] = StaleFile
    /\ tide_data.has_tide_points
    /\ tide_data.tide_points = <<>>
    /\ tide_data.daily = "absent"
    /\ result = "False"

\* C3 (as claimed): when rendering a non-empty series raises, the error
\* document is what gets written, and the call returns True if the sink
\* succeeds.
RenderRaised ==
    /\ predictions # <<>>
    /\ _generate_svg_plot(curve_points, extremes, current_time,
                          current_height, name).exc # "none"

C3_DegradesToErrorArtifact ==
    (pc = "done" /\ RenderRaised /\ sink = "ok") =>
        /\ result = "True"
        /\ files[filename] = _generate_error_svg
        /\ files[replace_png(filename)] = _generate_error_svg

\* C9 (as claimed): in the end-to-end scenario the current height is about
\* 2.11 m, with one High at 14:00/3.2, two Lows at 08:00/0.5 and 20:00/0.7,
\* and the written document carries the title and the labelled markers.
Scenario == tide_data = ScenarioPayload /\ current_time = ScenarioInstant

ScenarioExtremes ==
    <<Extreme(ScenarioPoints[1], "low"), Extreme(ScenarioPoints[2], "high"),
      Extreme(ScenarioPoints[3], "low")>>

\* The labels "<height>m @ <HH:MM>" of the scenario's extreme markers.
ScenarioMarkerLabels ==
    <<<<50, "m @", <<8, 0>>>>, <<320, "m @", <<14, 0>>>>,
      <<70, "m @", <<20, 0>>>>>>

ScenarioDocument(doc, shown_height) ==
    /\ doc.kind = "plot"
    /\ doc.title = <<"Tide Prediction - ", name>>
    /\ doc.current.some
    /\ doc.current.label = <<shown_height, "m @", <<11, 0>>>>
    /\ Len(doc.markers) = 3
    /\ \A k \in 1..3 :
        /\ doc.markers[k].type = ScenarioExtremes[k].type
        /\ doc.markers[k].label = ScenarioMarkerLabels[k]

C9_ScenarioAsClaimed ==
    (pc = "done" /\ Scenario) =>
        /\ current_height.some
        /\ fmt2(current_height.val) = 211
        /\ extremes = ScenarioExtremes
        /\ sink = "ok" => ScenarioDocument(files[filename], 211)

\* C9 (amended): in the end-to-end scenario the current height is 1.85 m
\* (linear between (08:00, 0.5) and (14:00, 3.2) at 11:00); the extremes are
\* Low 08:00/0.5, High 14:00/3.2, Low 20:00/0.7; and the written document
\* carries the title "Tide Prediction - <name>", the current marker labelled
\* "1.85m @ 11:00" and the three labelled extreme markers.
C9_Scenario ==
    (pc = "done" /\ Scenario) =>
        /\ current_height = Some(Q(37, 20))
        /\ extremes = ScenarioExtremes
        /\ sink = "ok" =>
            /\ result = "True"
            /\ ScenarioDocument(files[filename], 185)

\* The scenario rendered and written.
C9_Witness ==
    pc = "done" /\ Scenario /\ sink = "ok" /\ result = "True"

\* C10 (as claimed): after a call that returns True three artifacts have been
\* written: the document at the output path, the same document at the .svg
\* path, and the wrapper document embedding it as base64.
C10_ThreeArtifacts ==
    (pc = "done" /\ result = "True") =>
        /\ files[filename] = svg_content
        /\ files[replace_png(filename)] = svg_content
        /\ \E p \in DOMAIN files : files[p] = html_wrapper(svg_content)

-----------------------------------------------------------------------------
\* Properties of _extract_predictions (specification SpecExtract).

\* An entry is valid when it is a record whose date and time parse and whose
\* height is a number (an absent height reads as 0).
ValidEntry(e) ==
    /\ e.kind = "record"
    /\ e.fecha.tag = "val"
    /\ e.hora.tag = "val"
    /\ e.altura.tag # "bad"

ConvertedEntry(e) ==
    [time |-> QInt(e.fecha.v * 24 + e.hora.v),
     height |-> QInt(IF e.altura.tag = "val" THEN e.altura.v ELSE 0)]

ValidSubset(entries) ==
    LET valid == SelectSeq(entries, ValidEntry)
    IN  [k \in DOMAIN valid |-> ConvertedEntry(valid[k])]

\* C4 (as claimed): on a raw-shape payload mixing valid and malformed entries
\* (an entry that is not a record included), _extract_predictions does not
\* raise and returns exactly the valid entries, converted, in input order.
C4_ExtractSkipsMalformed ==
    pc = "done" =>
        /\ result = "returned"
        /\ predictions = ValidSubset(tide_data.prediccion)

-----------------------------------------------------------------------------
\* Properties of _generate_smooth_curve (specification SpecSmooth).

Injective(f) == \A i, j \in DOMAIN f : i # j => f[i] # f[j]

\* The orders of 1..n that put the times of preds in ascending order.
AscendingOrders(preds) ==
    {o \in [DOMAIN preds -> DOMAIN preds] :
        /\ Injective(o)
        /\ \A i \in 1..(Len(preds) - 1) :
            QLe(preds[o[i]].time, preds[o[i + 1]].time)}

\* C5: for N >= 2 raw predictions in any order the curve has (N-1)*6+1
\* points and the point at index 6*i (from 0) is the i-th raw prediction in
\* ascending time order; for N < 2 the input is returned unchanged.
C5_SmoothCurveShape ==
    pc = "done" =>
        IF Len(predictions) < 2 THEN curve_points = predictions
        ELSE /\ Len(curve_points) = (Len(predictions) - 1) * 6 + 1
             /\ \E o \in AscendingOrders(predictions) :
                    \A i \in 0..(Len(predictions) - 1) :
                        curve_points[6 * i + 1] = predictions[o[i + 1]]

\* A curve built from three predictions that were not in time order.
C5_Witness ==
    /\ pc = "done"
    /\ Len(predictions) = 3
    /\ QLt(predictions[2].time, predictions[1].time)
    /\ Len(curve_points) = 13

-----------------------------------------------------------------------------
\* Properties of _find_extremes (specification SpecExtremes).

\* The neighbours of index i that exist; at a boundary the missing neighbour
\* is the point itself, which both comparisons accept.
Neighbours(i) == {i - 1, i + 1} \cap DOMAIN predictions

GeBoth(i) ==
    \A j \in Neighbours(i) : QLe(predictions[j].height, predictions[i].height)
LeBoth(i) ==
    \A j \in Neighbours(i) : QLe(predictions[i].height, predictions[j].height)

Tagged(i, type) ==
    \E k \in DOMAIN extremes : extremes[k] = Extreme(predictions[i], type)

TagOf(i) ==
    IF GeBoth(i) THEN "high" ELSE IF LeBoth(i) THEN "low" ELSE "none"

TaggedIndices == {i \in DOMAIN predictions : TagOf(i) # "none"}

PeakAt(k) ==
    /\ k \in 2..(Len(predictions) - 1)
    /\ \A i \in 1..(k - 1) :
        QLt(predictions[i].height, predictions[i + 1].height)
    /\ \A i \in k..(Len(predictions) - 1) :
        QLt(predictions[i + 1].height, predictions[i].height)

\* C7 (as claimed): on a strictly increasing-then-decreasing series of >= 3
\* points the interior peak is tagged High and no other point is tagged.
C7_OnlyThePeak ==
    pc = "done" =>
        \A k \in DOMAIN predictions :
            PeakAt(k) => extremes = <<Extreme(predictions[k], "high")>>

\* C7 (amended): on a strictly increasing-then-decreasing series of >= 3
\* points the interior peak is the only High, and the two boundary points are
\* tagged Low: the result is Low (first point), High (peak), Low (last point).
C7_PeakAndBoundaryLows ==
    pc = "done" =>
        \A k \in DOMAIN predictions :
            PeakAt(k) =>
                extremes = <<Extreme(predictions[1], "low"),
                             Extreme(predictions[k], "high"),
                             Extreme(predictions[Len(predictions)], "low")>>

\* A series of four points with a peak, and its three extremes.
C7_Witness ==
    /\ pc = "done"
    /\ Len(predictions) = 4
    /\ \E k \in DOMAIN predictions : PeakAt(k)
    /\ Len(extremes) = 3

-----------------------------------------------------------------------------
\* Properties of _interpolate_current_height (specification SpecInterpolate).

Ascending(preds) ==
    \A i \in 1..(Len(preds) - 1) : QLe(preds[i].time, preds[i + 1].time)

Brackets(i) ==
    /\ QLe(predictions[i].time, current_time)
    /\ QLe(current_time, predictions[i + 1].time)

FirstBracket ==
    CHOOSE i \in 1..(Len(predictions) - 1) :
        Brackets(i) /\ \A j \in 1..(i - 1) : ~Brackets(j)

\* v = h1 + (h2 - h1) * (q - t1) / (t2 - t1), or h1 when t1 = t2.
LinearBetween(v, p1, p2) ==
    IF p1.time = p2.time THEN v = p1.height
    ELSE QMul(v, QSub(p2.time, p1.time))
            = QAdd(QMul(p1.height, QSub(p2.time, p1.time)),
                   QMul(QSub(p2.height, p1.height),
                        QSub(current_time, p1.time)))

\* C8: on a time-ascending series of >= 2 predictions the result is None
\* exactly when the instant is before the first or after the last time;
\* otherwise it is the linear value in the first bracket (h1 when the bracket
\* has no duration).  With fewer than 2 predictions it is None.
C8_Interpolation ==
    pc = "done" =>
        /\ Len(predictions) < 2 => ~current_height.some
        /\ (Len(predictions) >= 2 /\ Ascending(predictions)) =>
            LET outside ==
                    \/ QLt(current_time, predictions[1].time)
                    \/ QLt(predictions[Len(predictions)].time, current_time)
            IN  /\ current_height.some <=> ~outside
                /\ ~outside =>
                    LinearBetween(current_height.val,
                                  predictions[FirstBracket],
                                  predictions[FirstBracket + 1])

\* An ascending series and an instant strictly inside a bracket, giving a
\* height that is not a whole number.
C8_Witness ==
    /\ pc = "done"
    /\ Len(predictions) >= 2
    /\ Ascending(predictions)
    /\ current_height.some
    /\ current_height.val.d # 1

-----------------------------------------------------------------------------
\* Order of the series (specification SpecInterpolate).

DistinctTimes(preds) ==
    \A i, j \in DOMAIN preds : i # j => preds[i].time # preds[j].time

\* C11 (as claimed): for a series with distinct times, in whatever order it
\* is given, the current height is the one computed for the series in
\* ascending time order.
C11_OrderIndependent ==
    (pc = "done" /\ DistinctTimes(predictions)) =>
        current_height
            = _interpolate_current_height(sorted_by_time(predictions),
                                          current_time)

-----------------------------------------------------------------------------
\* The plot area (specification SpecPlot): generate_tide_plot on a normalized
\* payload.  The series is any series of up to PlotLen predictions, or a
\* longer one, in any order with distinct times or in ascending order with
\* repeated times, whose heights are the lowest and the highest of Heights.

EndHeights(s) ==
    \A i \in DOMAIN s : s[i].height \in {QInt(0), QInt(MaxHeight)}

PlotInputs ==
    {s \in Series \ {<<>>} :
        \/ Len(s) <= PlotLen
        \/ EndHeights(s) /\ (DistinctTimes(s) \/ Ascending(s))}

InitPlot ==
    /\ InitCommon
    /\ predictions = <<>>
    /\ filename = Filename
    /\ files = [p \in Paths |-> AbsentFile]
    /\ tide_data \in {NormalizedPayload(s) : s \in PlotInputs}
    /\ current_time \in Instants

SpecPlot == InitPlot /\ [][GenerateTidePlot]_vars

NonZeroSpans(preds) ==
    /\ preds # <<>>
    /\ QMin(times_of(preds)) # QMax(times_of(preds))
    /\ QMin(heights_of(preds)) # QMax(heights_of(preds))

InsidePlot(pt) ==
    /\ QLe(QInt(margin), pt.x) /\ QLe(pt.x, QInt(width - margin))
    /\ QLe(QInt(margin), pt.y) /\ QLe(pt.y, QInt(height - margin))

WithinRaw(h) ==
    /\ QLe(QMin(heights_of(predictions)), h)
    /\ QLe(h, QMax(heights_of(predictions)))

\* C12: for a series with a non-zero time span and a non-zero height span the
\* plot is drawn, and every curve point, every extreme marker and the current
\* marker (present exactly when a current height was computed) lies inside
\* the plot area, margin <= x <= width - margin and margin <= y <= height -
\* margin; the smoothed heights and the current height stay within the range
\* of the raw heights, and the current height comes with a bracket of raw
\* predictions around the instant.
C12_PointsInsidePlot ==
    (pc = "done" /\ NonZeroSpans(predictions)) =>
        /\ svg_content.kind = "plot"
        /\ Len(svg_content.path) = Len(curve_points)
        /\ Len(svg_content.markers) = Len(extremes)
        /\ svg_content.current.some = current_height.some
        /\ \A i \in DOMAIN svg_content.path : InsidePlot(svg_content.path[i])
        /\ \A i \in DOMAIN svg_content.markers :
            InsidePlot(svg_content.markers[i])
        /\ svg_content.current.some => InsidePlot(svg_content.current)
        /\ \A i \in DOMAIN curve_points : WithinRaw(curve_points[i].height)
        /\ current_height.some =>
            /\ WithinRaw(current_height.val)
            /\ \E i \in 1..(Len(predictions) - 1) : Brackets(i)

\* A series out of time order is drawn with its curve, three extreme markers
\* and the current marker.
C12_Witness ==
    /\ pc = "done"
    /\ NonZeroSpans(predictions)
    /\ ~Ascending(predictions)
    /\ svg_content.kind = "plot"
    /\ Len(svg_content.path) > Len(predictions)
    /\ Len(svg_content.markers) >= 3
    /\ svg_content.current.some

====
